---- MODULE Spec2Model ----
(***************************************************************************)
(* A model of the AI Photo Generator (app.py, imgcreat.py).                *)
(*                                                                         *)
(* app.py is a Streamlit script: every user interaction with a widget      *)
(* re-runs the whole script from top to bottom, st.session_state survives  *)
(* the re-runs, and st.button(label) returns True only in the run that the *)
(* click on that very button triggered.  One action of the model is one    *)
(* user interaction together with the complete script run it triggers.     *)
(*                                                                         *)
(* Text is modelled as a sequence of one-character strings, so that the    *)
(* string operations of the source (re.sub, slicing, replace, strip, the   *)
(* f-string formatting of the log lines) are computed character by         *)
(* character.                                                              *)
(***************************************************************************)
EXTENDS Integers, Sequences, FiniteSets, TLC

VARIABLES
    generation_count,   \* st.session_state.generation_count
    prompt,             \* value of the prompt text area
    img,                \* the uploaded guide image: <<>> (None) or <<image>>
    outputs,            \* files of the outputs/ directory: {[name, image]}
    user_logs_csv,      \* content of user_logs.csv (text)
    feedback_csv,       \* content of feedback.csv (text)
    pipe_calls,         \* the Model Provider calls made so far, in order
    sent_mail,          \* messages accepted by the SMTP server
    EMAIL_ADDRESS,      \* os.getenv("EMAIL_ADDRESS"): <<>> (None) or <<text>>
    EMAIL_PASSWORD,     \* os.getenv("EMAIL_PASSWORD"): <<>> (None) or <<text>>
    clock,              \* datetime.now(), seconds after 2025-04-08 12:00:00
    runs,               \* number of script runs of the session
    trigger,            \* the user interaction that triggered the last run
    st_messages,        \* the messages and download buttons the last run rendered
    st_image,           \* the image the last run displayed: <<>> or <<image>>
    widgets,            \* the conditional widgets the last run rendered
    text,               \* sanitize_filename: the argument
    stem,               \* sanitize_filename: <<>> (not called) or <<result>>
    fb_calls            \* number of direct calls of save_feedback

appvars == <<generation_count, prompt, img, outputs, user_logs_csv, feedback_csv,
             pipe_calls, sent_mail, EMAIL_ADDRESS, EMAIL_PASSWORD, clock, runs,
             trigger, st_messages, st_image, widgets>>

vars == <<generation_count, prompt, img, outputs, user_logs_csv, feedback_csv,
          pipe_calls, sent_mail, EMAIL_ADDRESS, EMAIL_PASSWORD, clock, runs,
          trigger, st_messages, st_image, widgets, text, stem, fb_calls>>

----------------------------------------------------------------------------
(* Bounds of the model *)

\* script runs explored in one session
MaxRuns == 5
\* seconds the clock may advance during one session
MaxClock == 2
\* characters added before and after a base text of the sanitizer's inputs
MaxPad == 2
\* direct calls of save_feedback explored
MaxFeedbackCalls == 2

----------------------------------------------------------------------------
(* Configuration (app.py lines 19-28) *)

MAX_FREE_GENERATIONS == 2
steps == 40
guidance_scale == "7.5"
strength == "0.75"
signature_texts == <<"@ualvi27", "@AIXG5G">>

\* the slice bound of sanitize_filename, text[:25]
MaxStemLen == 25
\* the side of the square the guide image is resized to
GuideSide == 512
\* the offsets of the signature from the right and bottom edges
SignatureLeft == 250
SignatureStep == 100
SignatureUp == 40

----------------------------------------------------------------------------
(* Text *)

Min(a, b) == IF a < b THEN a ELSE b

\* the characters removed by the character class [\\/*?:"<>|]
ReservedChars == {"\\", "/", "*", "?", ":", "\"", "<", ">", "|"}

\* the characters str.strip() removes from both ends
Whitespace == {" ", "\t", "\n", "\r"}

\* re.sub(r'[\\/*?:"<>|]', "", text)
re_sub_reserved(t) == SelectSeq(t, LAMBDA c : c \notin ReservedChars)

\* text[:n]
Slice(t, n) == SubSeq(t, 1, Min(n, Len(t)))

\* text.replace(" ", "_")
replace_spaces(t) == [i \in 1..Len(t) |-> IF t[i] = " " THEN "_" ELSE t[i]]

\* a slice one character too long
sanitize_filename_long(t) ==
    replace_spaces(Slice(re_sub_reserved(t), MaxStemLen + 1))

sanitize_filename(t) ==
    replace_spaces(Slice(re_sub_reserved(t), MaxStemLen))

RECURSIVE lstrip(_)
lstrip(t) ==
    IF t # <<>> /\ Head(t) \in Whitespace THEN lstrip(Tail(t)) ELSE t

RECURSIVE rstrip(_)
rstrip(t) ==
    IF t # <<>> /\ t[Len(t)] \in Whitespace
    THEN rstrip(SubSeq(t, 1, Len(t) - 1))
    ELSE t

\* str.strip()
strip(t) == rstrip(lstrip(t))

Digit(n) == <<"0", "1", "2", "3", "4", "5", "6", "7", "8", "9">>[n + 1]

TwoDigits(n) == <<Digit(n \div 10), Digit(n % 10)>>

\* datetime.now().strftime("%Y%m%d_%H%M%S"), at second t of the session
strftime_compact(t) ==
    <<"2", "0", "2", "5", "0", "4", "0", "8", "_", "1", "2", "0", "0">>
        \o TwoDigits(t)

\* datetime.now().strftime("%Y-%m-%d %H:%M:%S"), at second t of the session
strftime_readable(t) ==
    <<"2", "0", "2", "5", "-", "0", "4", "-", "0", "8", " ",
      "1", "2", ":", "0", "0", ":">> \o TwoDigits(t)

\* f"{sanitize_filename(prompt)}_{timestamp}.png"
FileName(p, timestamp) ==
    sanitize_filename(p) \o <<"_">> \o timestamp \o <<".", "p", "n", "g">>

----------------------------------------------------------------------------
(* Images and the Model Provider *)

\* the photos a user may upload (Image.open(uploaded_img))
UploadedImages ==
    { [mode |-> "RGBA", width |-> 640, height |-> 480],
      [mode |-> "RGB", width |-> GuideSide, height |-> GuideSide] }

\* uploaded_img.convert("RGB").resize((512, 512))
convert_resize(image) ==
    [image EXCEPT !.mode = "RGB", !.width = GuideSide, !.height = GuideSide]

\* an orchestrator that ignores the guide image
generate_image_call_txt_only(p, uploaded_img, ok) ==
    [pipe |-> "txt2img", prompt |-> p, image |-> <<>>,
     strength |-> <<>>, guidance_scale |-> guidance_scale,
     num_inference_steps |-> steps, returned |-> ok]

\* the call generate_image makes: pipe_img2img(prompt=, image=, strength=,
\* guidance_scale=, num_inference_steps=) when a guide image is given,
\* pipe_txt2img(prompt, guidance_scale=, num_inference_steps=) otherwise
generate_image_call(p, uploaded_img, ok) ==
    IF uploaded_img # <<>>
    THEN [pipe |-> "img2img", prompt |-> p,
          image |-> <<convert_resize(uploaded_img[1])>>,
          strength |-> <<strength>>, guidance_scale |-> guidance_scale,
          num_inference_steps |-> steps, returned |-> ok]
    ELSE [pipe |-> "txt2img", prompt |-> p, image |-> <<>>,
          strength |-> <<>>, guidance_scale |-> guidance_scale,
          num_inference_steps |-> steps, returned |-> ok]

\* result.images[0] of the k-th call of the session: an unsigned raster
pipe_result(k) ==
    [width |-> GuideSide, height |-> GuideSide, pipe_call |-> k, texts |-> <<>>]

add_signature(image) ==
    [image EXCEPT !.texts = @ \o
        [i \in 1..Len(signature_texts) |->
            [x |-> image.width - SignatureLeft + (i - 1) * SignatureStep,
             y |-> image.height - SignatureUp,
             tag |-> signature_texts[i]]]]

\* the value generate_image returns when its call, the k-th, returns
generate_image(k) == add_signature(pipe_result(k))

----------------------------------------------------------------------------
(* The logs *)

\* f"{timestamp},{prompt},{filename}\n"
user_log_line(timestamp, p, filename) ==
    timestamp \o <<",">> \o p \o <<",">> \o filename \o <<"\n">>

\* f'"{timestamp}","{prompt}","{filename}","{feedback.strip()}"\n'
feedback_line(timestamp, p, filename, fb) ==
    <<"\"">> \o timestamp \o <<"\"", ",", "\"">> \o p \o <<"\"", ",", "\"">>
        \o filename \o <<"\"", ",", "\"">> \o strip(fb) \o <<"\"", "\n">>

\* open("feedback.csv", "a") and f.write(...), at second t
save_feedback(log, t, p, filename, fb) ==
    log \o feedback_line(strftime_readable(t), p, filename, fb)

\* whether smtp.login and smtp.send_message go through
smtp_accepts(address, password, smtp_ok) ==
    address # <<>> /\ password # <<>> /\ smtp_ok

\* the mailbox after send_feedback_email: any failure is caught
send_feedback_email(mail, p, fb, smtp_ok) ==
    IF smtp_accepts(EMAIL_ADDRESS, EMAIL_PASSWORD, smtp_ok)
    THEN Append(mail, [prompt |-> p, feedback |-> fb])
    ELSE mail

----------------------------------------------------------------------------
(* The script of app.py, lines 90-156 *)

Triggers ==
    {"load", "edit_prompt", "upload", "edit_feedback",
     "click_generate", "click_submit", "click_skip"}

\* st.button(label) in a run triggered by the interaction ev
st_button(ev, label) == ev = label

\* the state after construction: the first run of the script in a new
\* session, which renders the page with an empty prompt and no upload
Init ==
    /\ generation_count = 0
    /\ prompt = <<>>
    /\ img = <<>>
    /\ outputs = {}
    /\ user_logs_csv = <<>>
    /\ feedback_csv = <<>>
    /\ pipe_calls = <<>>
    /\ sent_mail = <<>>
    /\ EMAIL_ADDRESS \in {<<>>, <<"a">>}
    /\ EMAIL_PASSWORD \in {<<>>, <<"p">>}
    /\ clock = 0
    /\ runs = 0
    /\ trigger = "load"
    /\ st_messages = {}
    /\ st_image = <<>>
    /\ widgets = {"click_generate"}
    /\ text = <<>>
    /\ stem = <<>>
    /\ fb_calls = 0

\* a gate that closes one generation late
limit_reached_late(count) == count > MAX_FREE_GENERATIONS

\* line 119: the Guest Limit Control
limit_reached(count) == count >= MAX_FREE_GENERATIONS

\* a check that forgets to strip the prompt
prompt_is_blank_unstripped(p) == p = <<>>

\* line 123: not prompt.strip()
prompt_is_blank(p) == strip(p) = <<>>

\* a handler that swallows the provider's failure and goes on
image_saved_after_failure(pipe_ok, save_ok) == save_ok

\* lines 127-131: image.save(filepath) is reached only when generate_image
\* returned, and writes the file unless the file system refuses
image_saved(pipe_ok, save_ok) == pipe_ok /\ save_ok

\* lines 133-134: the append to user_logs.csv is reached only after the
\* image was saved, and writes the line unless the file system refuses
log_appended(pipe_ok, save_ok, log_ok) ==
    image_saved(pipe_ok, save_ok) /\ log_ok

\* a handler that forgets the increment
incremented_not(count) == count

\* line 136: st.session_state.generation_count += 1
incremented(count) == count + 1

\* lines 146-151: the body of the "Submit Feedback & Download" button
SubmitFeedback(p, filename, fb, smtp_ok) ==
    /\ feedback_csv' = save_feedback(feedback_csv, clock', p, filename, fb)
    /\ sent_mail' = send_feedback_email(sent_mail, p, fb, smtp_ok)
    /\ st_messages' =
          {"success_generated", "download_button", "success_feedback"}
          \cup (IF smtp_accepts(EMAIL_ADDRESS, EMAIL_PASSWORD, smtp_ok)
                THEN {} ELSE {"warning_email"})

\* lines 126-156: the generation, with the environment's outcome of the
\* provider call (pipe_ok), of image.save (save_ok) and of the append to
\* user_logs.csv (log_ok); an exception ends the run where it is raised
Generate(ev, fb, pipe_ok, save_ok, log_ok, smtp_ok) ==
    LET k == Len(pipe_calls) + 1
        image == generate_image(k)
        timestamp == strftime_compact(clock')
        filename == FileName(prompt', timestamp)
    IN  /\ pipe_calls' =
              Append(pipe_calls, generate_image_call(prompt', img', pipe_ok))
        /\ outputs' =
              IF image_saved(pipe_ok, save_ok)
              THEN {f \in outputs : f.name # filename}
                       \cup {[name |-> filename, image |-> image]}
              ELSE outputs
        /\ user_logs_csv' =
              IF log_appended(pipe_ok, save_ok, log_ok)
              THEN user_logs_csv \o user_log_line(timestamp, prompt', filename)
              ELSE user_logs_csv
        /\ IF log_appended(pipe_ok, save_ok, log_ok)
           THEN /\ generation_count' = incremented(generation_count)
                /\ st_image' = <<image>>
                /\ widgets' = {"click_generate", "edit_feedback",
                               "click_submit", "click_skip"}
                /\ IF st_button(ev, "click_submit")
                   THEN SubmitFeedback(prompt', filename, fb, smtp_ok)
                   ELSE /\ st_messages' =
                              {"success_generated"}
                              \cup (IF st_button(ev, "click_skip")
                                    THEN {"download_button"} ELSE {})
                        /\ UNCHANGED <<feedback_csv, sent_mail>>
           ELSE /\ st_messages' = {"exception"}
                /\ st_image' = <<>>
                /\ widgets' = {"click_generate"}
                /\ UNCHANGED <<generation_count, feedback_csv, sent_mail>>

\* one run of the script, triggered by the interaction ev, with the widget
\* values p (prompt), i (upload) and fb (feedback area) the browser sends
Script(ev, p, i, fb, tick, pipe_ok, save_ok, log_ok, smtp_ok) ==
    /\ runs < MaxRuns
    /\ clock + tick <= MaxClock
    /\ runs' = runs + 1
    /\ clock' = clock + tick
    /\ trigger' = ev
    /\ prompt' = p
    /\ img' = i
    /\ UNCHANGED <<EMAIL_ADDRESS, EMAIL_PASSWORD, text, stem, fb_calls>>
    /\ IF limit_reached(generation_count)
       THEN /\ st_messages' = {"error_limit"}
            /\ st_image' = <<>>
            /\ widgets' = {}
            /\ UNCHANGED <<generation_count, outputs, user_logs_csv,
                           feedback_csv, pipe_calls, sent_mail>>
       ELSE IF ~st_button(ev, "click_generate")
       THEN /\ st_messages' = {}
            /\ st_image' = <<>>
            /\ widgets' = {"click_generate"}
            /\ UNCHANGED <<generation_count, outputs, user_logs_csv,
                           feedback_csv, pipe_calls, sent_mail>>
       ELSE IF prompt_is_blank(p)
       THEN /\ st_messages' = {"warning_prompt"}
            /\ st_image' = <<>>
            /\ widgets' = {"click_generate"}
            /\ UNCHANGED <<generation_count, outputs, user_logs_csv,
                           feedback_csv, pipe_calls, sent_mail>>
       ELSE Generate(ev, fb, pipe_ok, save_ok, log_ok, smtp_ok)

----------------------------------------------------------------------------
(* The user's interactions *)

Text_coffee ==
    <<"A", " ", "c", "o", "z", "y", " ", "c", "o", "f", "f", "e", "e", " ",
      "s", "h", "o", "p", " ", "i", "n", "t", "e", "r", "i", "o", "r">>

\* the prompts typed in the session: empty, blank, a suggested prompt,
\* reserved characters only, and a prompt with a reserved character
PromptInputs ==
    { <<>>, <<" ", "\n">>, Text_coffee, <<"?">>, <<"a", "/", "b", " ", "c">> }

\* the texts typed into the feedback area
FeedbackInputs ==
    { <<"o", "k">>, <<" ", "n", "i", "c", "e", "\n">>,
      <<"s", "o", " ", "\"", "r", "e", "a", "l", "\"">>,
      <<"b", "a", "d", "\"", "\n", "w", "h", "y">> }

Ticks == {0, 1}

\* the user edits the prompt text area (or picks a suggested prompt)
EditPrompt ==
    \E p \in PromptInputs \ {prompt}, tick \in Ticks :
        Script("edit_prompt", p, img, <<>>, tick, TRUE, TRUE, TRUE, TRUE)

\* the user uploads a photo, or removes the uploaded one
UploadImage ==
    \E i \in ({<<>>} \cup {<<u>> : u \in UploadedImages}) \ {img},
       tick \in Ticks :
        Script("upload", prompt, i, <<>>, tick, TRUE, TRUE, TRUE, TRUE)

\* the user clicks "Generate Image"
ClickGenerate ==
    /\ "click_generate" \in widgets
    /\ \E tick \in Ticks, pipe_ok, save_ok, log_ok \in BOOLEAN :
        Script("click_generate", prompt, img, <<>>, tick,
               pipe_ok, save_ok, log_ok, TRUE)

\* the user types into the feedback area shown under the image
EditFeedback ==
    /\ "edit_feedback" \in widgets
    /\ \E fb \in FeedbackInputs, tick \in Ticks :
        Script("edit_feedback", prompt, img, fb, tick, TRUE, TRUE, TRUE, TRUE)

\* the user clicks "Submit Feedback & Download"
ClickSubmit ==
    /\ "click_submit" \in widgets
    /\ \E tick \in Ticks, smtp_ok \in BOOLEAN :
        Script("click_submit", prompt, img, <<>>, tick,
               TRUE, TRUE, TRUE, smtp_ok)

\* the user clicks "Skip Feedback & Download"
ClickSkip ==
    /\ "click_skip" \in widgets
    /\ \E tick \in Ticks :
        Script("click_skip", prompt, img, <<>>, tick, TRUE, TRUE, TRUE, TRUE)

Next ==
    \/ EditPrompt
    \/ UploadImage
    \/ ClickGenerate
    \/ EditFeedback
    \/ ClickSubmit
    \/ ClickSkip

Spec == Init /\ [][Next]_vars

----------------------------------------------------------------------------
(* sanitize_filename on its own: the function applied to drawn texts *)

\* the prompt of imgcreat.py, line 13
Text_imgcreat ==
    Text_coffee \o <<" ", "d", "u", "r", "i", "n", "g", " ",
                     "s", "u", "n", "s", "e", "t">>

\* imgcreat.py line 42: the same expression, written inline
imgcreat_stem ==
    replace_spaces(Slice(re_sub_reserved(Text_imgcreat), MaxStemLen))

PadChars == ReservedChars \cup {" ", "a", "\n"}

RECURSIVE Pads(_)
Pads(n) ==
    IF n = 0 THEN {<<>>}
    ELSE Pads(n - 1) \cup
         {Append(t, c) : t \in {u \in Pads(n - 1) : Len(u) = n - 1},
                         c \in PadChars}

\* texts of 0 to 41 characters and more: around the slice bound, with
\* reserved characters and spaces before and after it
SanitizeInputs ==
    { pre \o base \o suf :
        pre \in Pads(MaxPad),
        base \in {<<>>, SubSeq(Text_coffee, 1, MaxStemLen - 1), Text_coffee,
                  Text_imgcreat},
        suf \in Pads(1) }

InitSanitize ==
    /\ generation_count = 0
    /\ prompt = <<>>
    /\ img = <<>>
    /\ outputs = {}
    /\ user_logs_csv = <<>>
    /\ feedback_csv = <<>>
    /\ pipe_calls = <<>>
    /\ sent_mail = <<>>
    /\ EMAIL_ADDRESS = <<>>
    /\ EMAIL_PASSWORD = <<>>
    /\ clock = 0
    /\ runs = 0
    /\ trigger = "load"
    /\ st_messages = {}
    /\ st_image = <<>>
    /\ widgets = {"click_generate"}
    /\ text \in SanitizeInputs
    /\ stem = <<>>
    /\ fb_calls = 0

\* the call sanitize_filename(text)
Sanitize ==
    /\ stem = <<>>
    /\ stem' = <<sanitize_filename(text)>>
    /\ UNCHANGED <<appvars, text, fb_calls>>

NextSanitize == Sanitize

SpecSanitize == InitSanitize /\ [][NextSanitize]_vars

----------------------------------------------------------------------------
(* save_feedback on its own: the function applied to drawn arguments *)

\* one line written by an earlier session
Text_old_line ==
    feedback_line(strftime_readable(0), <<"a">>,
                  FileName(<<"a">>, strftime_compact(0)), <<"o", "k">>)

InitFeedback ==
    /\ generation_count = 0
    /\ prompt = <<>>
    /\ img = <<>>
    /\ outputs = {}
    /\ user_logs_csv = <<>>
    /\ feedback_csv \in {<<>>, Text_old_line}
    /\ pipe_calls = <<>>
    /\ sent_mail = <<>>
    /\ EMAIL_ADDRESS = <<>>
    /\ EMAIL_PASSWORD = <<>>
    /\ clock = 0
    /\ runs = 0
    /\ trigger = "load"
    /\ st_messages = {}
    /\ st_image = <<>>
    /\ widgets = {"click_generate"}
    /\ text = <<>>
    /\ stem = <<>>
    /\ fb_calls = 0

\* the call save_feedback(prompt, filename, feedback), with the arguments
\* the "Submit Feedback & Download" button passes: a prompt that is not
\* blank, the file name made from it, and the text of the feedback area
SaveFeedback ==
    \E p \in {q \in PromptInputs : ~prompt_is_blank(q)},
       fb \in FeedbackInputs, tick \in Ticks :
        /\ fb_calls < MaxFeedbackCalls
        /\ clock + tick <= MaxClock
        /\ fb_calls' = fb_calls + 1
        /\ clock' = clock + tick
        /\ feedback_csv' =
              save_feedback(feedback_csv, clock', p,
                            FileName(p, strftime_compact(clock)), fb)
        /\ UNCHANGED <<generation_count, prompt, img, outputs, user_logs_csv,
                       pipe_calls, sent_mail, EMAIL_ADDRESS, EMAIL_PASSWORD,
                       runs, trigger, st_messages, st_image, widgets,
                       text, stem>>

NextFeedback == SaveFeedback

SpecFeedback == InitFeedback /\ [][NextFeedback]_vars

----------------------------------------------------------------------------
(* Reading the logs back *)

\* The number of records a CSV reader finds in a text: a line break ends a
\* record unless it stands inside a quoted field; a quote inside a quoted
\* field closes it unless it is doubled; text left at the end is a record.
CsvStates ==
    {"start_record", "start_field", "in_field", "in_quoted", "quote_in_quoted"}

\* the reader's state after the character c, and the records c ended
CsvStep(st, c) ==
    IF st = "in_quoted"
    THEN IF c = "\"" THEN <<"quote_in_quoted", 0>> ELSE <<"in_quoted", 0>>
    ELSE IF c = "\"" /\ st \in {"start_record", "start_field"}
    THEN <<"in_quoted", 0>>
    ELSE IF c = "\"" /\ st = "quote_in_quoted" THEN <<"in_quoted", 0>>
    ELSE IF c = "\n"
    THEN <<"start_record", IF st = "start_record" THEN 0 ELSE 1>>
    ELSE IF c = "," THEN <<"start_field", 0>>
    ELSE <<"in_field", 0>>

\* the reader's run over t[lo..hi], from every state: halves composed
RECURSIVE CsvRun(_, _, _)
CsvRun(t, lo, hi) ==
    IF lo > hi THEN [st \in CsvStates |-> <<st, 0>>]
    ELSE IF lo = hi THEN [st \in CsvStates |-> CsvStep(st, t[lo])]
    ELSE LET mid == (lo + hi) \div 2
             left == CsvRun(t, lo, mid)
             right == CsvRun(t, mid + 1, hi)
         IN  [st \in CsvStates |->
                 <<right[left[st][1]][1], left[st][2] + right[left[st][1]][2]>>]

CsvRecords(t) ==
    LET end == CsvRun(t, 1, Len(t))["start_record"]
    IN  end[2] + (IF end[1] = "start_record" THEN 0 ELSE 1)

RecordCount(t) == CsvRecords(t)

\* t is the text s with something appended
Extends(t, s) == Len(t) >= Len(s) /\ SubSeq(t, 1, Len(s)) = s

\* a script run has just been triggered by the interaction ev
Ran(ev) == runs' = runs + 1 /\ trigger' = ev

\* nothing of a generation happened in the step
NoGeneration ==
    /\ pipe_calls' = pipe_calls
    /\ outputs' = outputs
    /\ user_logs_csv' = user_logs_csv
    /\ generation_count' = generation_count

AllWhitespace(t) == \A i \in 1..Len(t) : t[i] \in {" ", "\t", "\n", "\r"}

----------------------------------------------------------------------------
(* The claims *)

\* C1: the counter never exceeds the quota of 2, and once it has reached
\* the quota every click on "Generate Image" is answered with the limit
\* error, with no Model Provider call, no new image file, no new line in
\* the generation log and the counter unchanged.
C1_QuotaGate ==
    /\ [](generation_count <= 2)
    /\ [][ (generation_count >= 2 /\ Ran("click_generate"))
            => ("error_limit" \in st_messages' /\ NoGeneration) ]_vars

\* C1 happens: a click on "Generate Image" made with the counter at the
\* quota has been rejected, after two generations went through.
C1_Witness ==
    /\ generation_count = 2
    /\ trigger = "click_generate"
    /\ st_messages = {"error_limit"}
    /\ Len(pipe_calls) >= 2

\* C2: a click on "Submit Feedback & Download" reaches the Feedback Logger:
\* the run it triggers appends a record to the feedback log.
C2_SubmitReachesLogger ==
    [][ Ran("click_submit")
        => (Extends(feedback_csv', feedback_csv)
            /\ Len(feedback_csv') > Len(feedback_csv)) ]_vars

\* C3 as stated: between user actions the counter equals the number of
\* Model Provider calls that returned an image.
C3_CountsProviderReturns ==
    generation_count =
        Cardinality({k \in 1..Len(pipe_calls) : pipe_calls[k].returned})

\* C3 amended: the counter starts at 0; a run adds exactly 1 to it when it
\* is a generation that ran to completion (the provider returned an image,
\* the image file was written and the generation log gained its line), and
\* leaves it unchanged otherwise, also when the provider returned an image
\* but the file or the log line could not be written.
C3_CountsCompletedGenerations ==
    /\ generation_count = 0
    /\ [][ LET k == Len(pipe_calls')
               completed ==
                   /\ Ran("click_generate")
                   /\ k = Len(pipe_calls) + 1
                   /\ pipe_calls'[k].returned
                   /\ \E f \in outputs' : f.image.pipe_call = k
                   /\ Len(user_logs_csv') > Len(user_logs_csv)
           IN  generation_count' =
                   generation_count + (IF completed THEN 1 ELSE 0) ]_vars

\* C3 happens: the counter is 1 after one completed generation and one
\* generation whose provider call returned but whose run did not complete.
C3_Witness ==
    /\ generation_count = 1
    /\ Cardinality({k \in 1..Len(pipe_calls) : pipe_calls[k].returned}) = 2
    /\ "success_generated" \in st_messages

\* C4: a click on "Submit Feedback & Download" with the email credentials
\* absent still appends the record to the feedback log, shows the email
\* warning and offers the download.
C4_SubmitSurvivesEmailFailure ==
    [][ (Ran("click_submit") /\ (EMAIL_ADDRESS = <<>> \/ EMAIL_PASSWORD = <<>>))
        => /\ Len(feedback_csv') > Len(feedback_csv)
           /\ "warning_email" \in st_messages'
           /\ "download_button" \in st_messages' ]_vars

\* C5: a click on "Generate Image" with an empty or whitespace-only prompt
\* is answered with the prompt warning, with no Model Provider call, no
\* image file, no generation-log line and the counter unchanged.
C5_BlankPromptRejected ==
    [][ (Ran("click_generate") /\ AllWhitespace(prompt'))
        => ("warning_prompt" \in st_messages' /\ NoGeneration) ]_vars

\* C5 happens: a whitespace-only prompt that is not empty was submitted and
\* rejected.
C5_Witness ==
    /\ trigger = "click_generate"
    /\ prompt # <<>>
    /\ AllWhitespace(prompt)
    /\ st_messages = {"warning_prompt"}

\* C6: sanitize_filename returns a non-empty string for every non-empty
\* text.
C6_StemNotEmpty ==
    (stem # <<>> /\ text # <<>>) => stem[1] # <<>>

\* C7: the result of sanitize_filename has at most 25 characters, none of
\* the reserved characters \ / * ? : " < > | and no space; the same holds
\* of the stem imgcreat.py builds.
C7_StemBounded ==
    /\ stem # <<>> =>
        /\ Len(stem[1]) <= 25
        /\ \A i \in 1..Len(stem[1]) :
              stem[1][i] \notin
                  {"\\", "/", "*", "?", ":", "\"", "<", ">", "|", " "}
    /\ Len(imgcreat_stem) <= 25
    /\ \A i \in 1..Len(imgcreat_stem) :
          imgcreat_stem[i] \notin
              {"\\", "/", "*", "?", ":", "\"", "<", ">", "|", " "}

\* C7 happens: a text of more than 25 characters, with reserved characters
\* and spaces in it, more than 25 of them not reserved, was sanitized to a
\* stem of exactly 25 characters.
C7_Witness ==
    /\ stem # <<>>
    /\ Len(text) > 25
    /\ \E i \in 1..Len(text) : text[i] \in ReservedChars
    /\ \E i \in 1..25 : text[i] = " "
    /\ Len(re_sub_reserved(text)) > 25
    /\ Len(stem[1]) = 25

\* C8: the Model Provider is called only by a generation (a click on
\* "Generate Image" below the quota with a prompt that is not blank), and
\* then exactly once: image-to-image with the guide image as RGB 512x512
\* and the strength when a guide image is present, text-to-image without
\* image and strength otherwise; and the image shown after a generation is
\* that call's raster with the two signature tags drawn on it.
C8_OneProviderCall ==
    [][ LET k == Len(pipe_calls')
            invoked == /\ Ran("click_generate")
                       /\ generation_count < 2
                       /\ ~AllWhitespace(prompt')
        IN  /\ invoked =>
                /\ k = Len(pipe_calls) + 1
                /\ SubSeq(pipe_calls', 1, k - 1) = pipe_calls
                /\ pipe_calls'[k].prompt = prompt'
                /\ pipe_calls'[k].guidance_scale = "7.5"
                /\ pipe_calls'[k].num_inference_steps = 40
                /\ (img' # <<>>) <=> (pipe_calls'[k].pipe = "img2img")
                /\ (img' = <<>>) <=> (pipe_calls'[k].pipe = "txt2img")
                /\ img' # <<>> =>
                      /\ pipe_calls'[k].image =
                            <<[mode |-> "RGB", width |-> 512, height |-> 512]>>
                      /\ pipe_calls'[k].strength = <<"0.75">>
                /\ img' = <<>> =>
                      /\ pipe_calls'[k].image = <<>>
                      /\ pipe_calls'[k].strength = <<>>
                /\ "success_generated" \in st_messages' =>
                      /\ pipe_calls'[k].returned
                      /\ st_image' # <<>>
                      /\ st_image'[1].pipe_call = k
                      /\ [j \in 1..Len(st_image'[1].texts) |->
                             st_image'[1].texts[j].tag] = <<"@ualvi27", "@AIXG5G">>
            /\ ~invoked => pipe_calls' = pipe_calls ]_vars

\* C8 happens: both capabilities have been called, the image-to-image one
\* for an upload that was not 512x512 RGB, and a signed image is shown.
C8_Witness ==
    /\ \E k \in 1..Len(pipe_calls) : pipe_calls[k].pipe = "txt2img"
    /\ \E k \in 1..Len(pipe_calls) : pipe_calls[k].pipe = "img2img"
    /\ img # <<>>
    /\ img[1].width # 512
    /\ "success_generated" \in st_messages
    /\ st_image # <<>>

\* C9: every call of save_feedback adds exactly one record to the feedback
\* log, as a CSV reader counts them, and leaves the text before it as it was.
C9_OneRecordPerCall ==
    [][ fb_calls' = fb_calls + 1
        => /\ Extends(feedback_csv', feedback_csv)
           /\ RecordCount(feedback_csv') = RecordCount(feedback_csv) + 1 ]_vars

\* C10: when the Model Provider call of a generation fails, that one call
\* is all the run made of it (no retry), the failure ends the run, and no
\* image file is written, no generation-log line is appended and the
\* counter is unchanged.
C10_ProviderFailure ==
    [][ LET k == Len(pipe_calls')
        IN  (k > Len(pipe_calls) /\ ~pipe_calls'[k].returned)
            => /\ k = Len(pipe_calls) + 1
               /\ st_messages' = {"exception"}
               /\ outputs' = outputs
               /\ user_logs_csv' = user_logs_csv
               /\ generation_count' = generation_count ]_vars

\* C10 happens: the last run was a generation whose provider call failed,
\* after an earlier generation had written a file.
C10_Witness ==
    /\ trigger = "click_generate"
    /\ st_messages = {"exception"}
    /\ pipe_calls # <<>>
    /\ ~pipe_calls[Len(pipe_calls)].returned
    /\ outputs # {}

====
